---- MODULE Spec2Model ----
(***************************************************************************)
(* Model of the rectangle dividing library (kitsuyui/rust-rectangle-       *)
(* dividing).  The numeric type T is modelled by exact rationals, written  *)
(* as normalised pairs <<numerator, denominator>> with denominator > 0.    *)
(* A caller owns one AxisAlignedRectangle (self_) and calls one of the     *)
(* operations of the Dividing trait on it; the two-pass division is        *)
(* followed loop iteration by loop iteration.                              *)
(***************************************************************************)
EXTENDS Integers, Sequences, FiniteSets, TLC

VARIABLES
    self_,              \* the caller's rectangle, receiver of the call
    op,                 \* the operation called ("none" before the call)
    pc,                 \* position of the call: idle, pick, bands, done
    axis, v, values,    \* arguments of divide / divide_by_values_and_axis
    weights,            \* the caller's weight list
    aspect_ratio,       \* argument of the two-pass division
    boustrophedon,      \* argument of the two-pass division
    receiver,           \* self of divide_vertical_then_horizontal_with_weights
    ratio,              \* its aspect_ratio argument
    remaining_weights, picked_weights, dividing_weights,
    vertical_divided, band, forward, divided,   \* its locals
    result,             \* the value returned to the caller
    binding,            \* the call through the binding function `dividing`
    rot                 \* a value of each shape under repeated rotate_clockwise

vars == <<self_, op, pc, axis, v, values, weights, aspect_ratio, boustrophedon,
          receiver, ratio, remaining_weights, picked_weights,
          dividing_weights, vertical_divided, band, forward, divided, result,
          binding, rot>>

(***************************************************************************)
(* Bounds of the model.                                                    *)
(***************************************************************************)
MaxSize == 2
MaxLen == 4
MaxValues == 2
MaxTurns == 4

(***************************************************************************)
(* Exact rational arithmetic (the numeric type T).                         *)
(***************************************************************************)
Abs(n) == IF n < 0 THEN -n ELSE n

RECURSIVE GCD(_, _)
GCD(a, b) == IF b = 0 THEN a ELSE GCD(b, a % b)

Rat(n, d) ==
    LET g == GCD(Abs(n), Abs(d))
        s == IF d < 0 THEN -1 ELSE 1
    IN  <<(s * n) \div g, (s * d) \div g>>

Int2Rat(n) == <<n, 1>>
Zero == <<0, 1>>
One == <<1, 1>>

RAdd(a, b) == Rat(a[1] * b[2] + b[1] * a[2], a[2] * b[2])
RSub(a, b) == Rat(a[1] * b[2] - b[1] * a[2], a[2] * b[2])
RMul(a, b) == Rat(a[1] * b[1], a[2] * b[2])
RDiv(a, b) == Rat(a[1] * b[2], a[2] * b[1])
RGeq(a, b) == a[1] * b[2] >= b[1] * a[2]
RLeq(a, b) == a[1] * b[2] <= b[1] * a[2]
RLt(a, b) == a[1] * b[2] < b[1] * a[2]

RECURSIVE RSum(_)
RSum(s) == IF s = <<>> THEN Zero ELSE RAdd(s[1], RSum(Tail(s)))

Reverse(s) == [i \in 1..Len(s) |-> s[Len(s) + 1 - i]]

RECURSIVE Flatten(_)
Flatten(ss) == IF ss = <<>> THEN <<>> ELSE ss[1] \o Flatten(Tail(ss))

(***************************************************************************)
(* Geometry: Point, Rectangle, AxisAlignedRectangle.                       *)
(***************************************************************************)
Point(x, y) == [x |-> x, y |-> y]
Rectangle(width, height) == [width |-> width, height |-> height]
AxisAlignedRectangle(point, rectangle) == [point |-> point, rectangle |-> rectangle]

X(r) == r.point.x
Y(r) == r.point.y
Width(r) == r.rectangle.width
Height(r) == r.rectangle.height

size_for_axis(r, ax) == IF ax = "Vertical" THEN Width(r) ELSE Height(r)

area(r) == RMul(Width(r), Height(r))

\* a slip: a quarter turn about the origin, which negates one coordinate
point_rotate_clockwise_about_origin(p) == [x |-> RSub(Zero, p.y), y |-> p.x]

point_rotate_clockwise(p) == [x |-> p.y, y |-> p.x]

\* a slip: the height is copied into both fields
rectangle_rotate_clockwise_height_twice(r) == [width |-> r.height, height |-> r.height]

rectangle_rotate_clockwise(r) == [width |-> r.height, height |-> r.width]

rotate_clockwise(r) ==
    AxisAlignedRectangle(Point(Y(r), X(r)), Rectangle(Height(r), Width(r)))

\* a slip: one quarter turn too few
rotate_counter_clockwise_two_turns(r) ==
    rotate_clockwise(rotate_clockwise(r))

rotate_counter_clockwise(r) ==
    rotate_clockwise(rotate_clockwise(rotate_clockwise(r)))

\* a slip: the second piece keeps the whole width
divide_vertical_helper_full_width(r, x) ==
    << AxisAlignedRectangle(Point(X(r), Y(r)), Rectangle(x, Height(r))),
       AxisAlignedRectangle(Point(RAdd(X(r), x), Y(r)),
                            Rectangle(Width(r), Height(r))) >>

divide_vertical_helper(r, x) ==
    << AxisAlignedRectangle(Point(X(r), Y(r)), Rectangle(x, Height(r))),
       AxisAlignedRectangle(Point(RAdd(X(r), x), Y(r)),
                            Rectangle(RSub(Width(r), x), Height(r))) >>

\* a slip: the second piece is not moved by the offset
divide_vertical_unshifted(r, x) ==
    << divide_vertical_helper(r, x)[1],
       AxisAlignedRectangle(Point(X(r), Y(r)),
                            Rectangle(RSub(Width(r), x), Height(r))) >>

divide_vertical(r, x) == divide_vertical_helper(r, x)

\* a slip: the pieces are left in the rotated frame
divide_horizontal_not_rotated_back(r, y) ==
    divide_vertical(rotate_clockwise(r), y)

divide_horizontal(r, y) ==
    LET rotated == rotate_clockwise(r)
        ab == divide_vertical(rotated, y)
    IN  << rotate_counter_clockwise(ab[1]), rotate_counter_clockwise(ab[2]) >>

divide(r, val, ax) ==
    IF ax = "Vertical" THEN divide_vertical(r, val) ELSE divide_horizontal(r, val)

\* a slip: remaining is not replaced by the second piece
RECURSIVE divide_by_values_loop_stale_remaining(_, _, _, _)
divide_by_values_loop_stale_remaining(remaining_, divided_, vals, ax) ==
    IF vals = <<>>
    THEN Append(divided_, remaining_)
    ELSE LET d == divide(remaining_, vals[1], ax)
         IN  divide_by_values_loop_stale_remaining(
                 remaining_, Append(divided_, d[1]), Tail(vals), ax)

(***************************************************************************)
(* divide_by_values_and_axis: the for loop over values, with its two       *)
(* locals remaining_ and divided_.                                         *)
(***************************************************************************)
RECURSIVE divide_by_values_loop(_, _, _, _)
divide_by_values_loop(remaining_, divided_, vals, ax) ==
    IF vals = <<>>
    THEN Append(divided_, remaining_)
    ELSE LET d == divide(remaining_, vals[1], ax)
         IN  divide_by_values_loop(d[2], Append(divided_, d[1]), Tail(vals), ax)

divide_by_values_and_axis(r, vals, ax) ==
    divide_by_values_loop(r, <<>>, vals, ax)

\* a slip: divides by the number of weights instead of their sum
normalize_weights_by_count(ws) ==
    [i \in 1..Len(ws) |-> RDiv(ws[i], Int2Rat(Len(ws)))]

normalize_weights(ws) ==
    LET sum == RSum(ws)
    IN  [i \in 1..Len(ws) |-> RDiv(ws[i], sum)]

\* a slip: the last value is not dropped
divide_by_weights_and_axis_last_kept(r, ws, ax) ==
    IF Len(ws) = 0 THEN <<>>
    ELSE IF Len(ws) = 1 THEN <<r>>
    ELSE LET normalized_weights_ == normalize_weights(ws)
             size == size_for_axis(r, ax)
             vals == [i \in 1..Len(ws) |-> RMul(normalized_weights_[i], size)]
         IN  divide_by_values_and_axis(r, vals, ax)

divide_by_weights_and_axis(r, ws, ax) ==
    IF Len(ws) = 0 THEN <<>>
    ELSE IF Len(ws) = 1 THEN <<r>>
    ELSE LET normalized_weights_ == normalize_weights(ws)
             size == size_for_axis(r, ax)
             vals == [i \in 1..Len(ws) |-> RMul(normalized_weights_[i], size)]
         IN  divide_by_values_and_axis(r, SubSeq(vals, 1, Len(vals) - 1), ax)

(***************************************************************************)
(* The same code with an integer numeric type T: sums, products and        *)
(* differences are those of the integers, the quotient is truncated.       *)
(***************************************************************************)
\* a / b of an integer type, on integers held as <<n, 1>>
IntDiv(a, b) ==
    LET q == Abs(a[1]) \div Abs(b[1])
    IN  Int2Rat(IF (a[1] < 0) = (b[1] < 0) THEN q ELSE -q)

\* a slip: the quotient is taken exact, as with a floating type
normalize_weights_integer_exact(ws) ==
    LET sum == RSum(ws)
    IN  [i \in 1..Len(ws) |-> RDiv(ws[i], sum)]

normalize_weights_integer(ws) ==
    LET sum == RSum(ws)
    IN  [i \in 1..Len(ws) |-> IntDiv(ws[i], sum)]

divide_by_weights_and_axis_integer(r, ws, ax) ==
    IF Len(ws) = 0 THEN <<>>
    ELSE IF Len(ws) = 1 THEN <<r>>
    ELSE LET normalized_weights_ == normalize_weights_integer(ws)
             size == size_for_axis(r, ax)
             vals == [i \in 1..Len(ws) |-> RMul(normalized_weights_[i], size)]
         IN  divide_by_values_and_axis(r, SubSeq(vals, 1, Len(vals) - 1), ax)

(***************************************************************************)
(* divide_vertical_then_horizontal_with_weights, statement by statement.   *)
(***************************************************************************)
\* a slip: the normalized weights are popped without being reversed first
weight_stack_not_reversed(ws) == normalize_weights(ws)

\* lines 80, 86, 90: the normalized weights, reversed so that pop() takes the next one
weight_stack(ws) == Reverse(normalize_weights(ws))

\* a slip: the ratio is that of the whole band, not of its first item
first_item_aspect_ratio_of_band(picked, total_area, height) ==
    LET weights_in_group == RSum(picked)
        picked_area == RMul(total_area, weights_in_group)
        width == RDiv(picked_area, height)
    IN  RDiv(width, height)

\* a slip: the ratio is computed for the weight just added
first_item_aspect_ratio_of_last_picked(picked, total_area, height) ==
    LET weights_in_group == RSum(picked)
        picked_area == RMul(total_area, weights_in_group)
        width == RDiv(picked_area, height)
        first_item_height == RMul(RDiv(picked[Len(picked)], weights_in_group), height)
    IN  RDiv(width, first_item_height)

\* lines 94-98: the aspect ratio the first picked weight would get
first_item_aspect_ratio(picked, total_area, height) ==
    LET weights_in_group == RSum(picked)
        picked_area == RMul(total_area, weights_in_group)
        width == RDiv(picked_area, height)
        first_item_height == RMul(RDiv(picked[1], weights_in_group), height)
    IN  RDiv(width, first_item_height)

\* a slip: the weight that closes a group also opens the next one
pick_weight_kept_after_close(remaining, picked, dividing, total_area, height, target) ==
    LET picked_weight == remaining[Len(remaining)]
        picked1 == Append(picked, picked_weight)
        close == RGeq(first_item_aspect_ratio(picked1, total_area, height), target)
    IN  [ remaining_weights |-> SubSeq(remaining, 1, Len(remaining) - 1),
          picked_weights |-> IF close THEN <<picked_weight>> ELSE picked1,
          dividing_weights |-> IF close THEN Append(dividing, picked1) ELSE dividing ]

\* a slip: a group is closed only once it holds two weights
pick_weight_never_alone(remaining, picked, dividing, total_area, height, target) ==
    LET picked1 == Append(picked, remaining[Len(remaining)])
        close == /\ Len(picked1) >= 2
                 /\ RGeq(first_item_aspect_ratio(picked1, total_area, height), target)
    IN  [ remaining_weights |-> SubSeq(remaining, 1, Len(remaining) - 1),
          picked_weights |-> IF close THEN <<>> ELSE picked1,
          dividing_weights |-> IF close THEN Append(dividing, picked1) ELSE dividing ]

\* a slip: the weight is taken from the front of the reversed list
pick_weight_from_front(remaining, picked, dividing, total_area, height, target) ==
    LET picked1 == Append(picked, remaining[1])
        close == RGeq(first_item_aspect_ratio(picked1, total_area, height), target)
    IN  [ remaining_weights |-> Tail(remaining),
          picked_weights |-> IF close THEN <<>> ELSE picked1,
          dividing_weights |-> IF close THEN Append(dividing, picked1) ELSE dividing ]

\* a slip: the group is closed only when the ratio exceeds the target
pick_weight_strictly_greater(remaining, picked, dividing, total_area, height, target) ==
    LET picked1 == Append(picked, remaining[Len(remaining)])
        close == ~RLeq(first_item_aspect_ratio(picked1, total_area, height), target)
    IN  [ remaining_weights |-> SubSeq(remaining, 1, Len(remaining) - 1),
          picked_weights |-> IF close THEN <<>> ELSE picked1,
          dividing_weights |-> IF close THEN Append(dividing, picked1) ELSE dividing ]

\* a slip: a group that reaches the target is cleared without being kept
pick_weight_group_not_pushed(remaining, picked, dividing, total_area, height, target) ==
    LET picked1 == Append(picked, remaining[Len(remaining)])
        close == RGeq(first_item_aspect_ratio(picked1, total_area, height), target)
    IN  [ remaining_weights |-> SubSeq(remaining, 1, Len(remaining) - 1),
          picked_weights |-> IF close THEN <<>> ELSE picked1,
          dividing_weights |-> dividing ]

\* lines 92-103: one iteration of the while loop
pick_weight(remaining, picked, dividing, total_area, height, target) ==
    LET picked_weight == remaining[Len(remaining)]
        picked1 == Append(picked, picked_weight)
        close == RGeq(first_item_aspect_ratio(picked1, total_area, height), target)
    IN  [ remaining_weights |-> SubSeq(remaining, 1, Len(remaining) - 1),
          picked_weights |-> IF close THEN <<>> ELSE picked1,
          dividing_weights |-> IF close THEN Append(dividing, picked1) ELSE dividing ]

\* a slip: the weights left open at the end become one group each
push_leftover_one_by_one(picked, dividing) ==
    dividing \o [i \in 1..Len(picked) |-> <<picked[i]>>]

\* a slip: the group left open at the end is forgotten
push_leftover_dropped(picked, dividing) == dividing

\* lines 104-106: the group left open when the weights run out
push_leftover(picked, dividing) ==
    IF picked # <<>> THEN Append(dividing, picked) ELSE dividing

\* line 108
group_weights(dividing) == [i \in 1..Len(dividing) |-> RSum(dividing[i])]

\* a slip: the weights are reversed whatever the direction
band_weights_always_reversed(ws, fwd) == Reverse(ws)

\* lines 112-114: the band's weights as the inner split sees them
band_weights(ws, fwd) == IF ~fwd THEN Reverse(ws) ELSE ws

\* a slip: the pieces of a reversed band are not put back in weight order
band_pieces_not_reversed_back(divided_part, ws, fwd) ==
    divide_by_weights_and_axis(divided_part, band_weights(ws, fwd), "Horizontal")

\* lines 115-119: the pieces of one band, in the order they are appended
band_pieces(divided_part, ws, fwd) ==
    LET horizontal_divided ==
            divide_by_weights_and_axis(divided_part, band_weights(ws, fwd), "Horizontal")
    IN  IF ~fwd THEN Reverse(horizontal_divided) ELSE horizontal_divided

\* a slip: the direction is never changed
next_forward_never_toggled(fwd, boust) == fwd

\* a slip: the direction alternates whatever the flag
next_forward_always_toggled(fwd, boust) == ~fwd

\* lines 121-123
next_forward(fwd, boust) == IF boust THEN ~fwd ELSE fwd

RECURSIVE pick_loop(_, _, _, _, _, _)
pick_loop(remaining, picked, dividing, total_area, height, target) ==
    IF remaining = <<>>
    THEN push_leftover(picked, dividing)
    ELSE LET st == pick_weight(remaining, picked, dividing, total_area, height, target)
         IN  pick_loop(st.remaining_weights, st.picked_weights, st.dividing_weights,
                       total_area, height, target)

RECURSIVE band_loop(_, _, _, _, _, _)
band_loop(parts, dividing, k, fwd, boust, acc) ==
    IF k > Len(parts) \/ k > Len(dividing)
    THEN acc
    ELSE band_loop(parts, dividing, k + 1, next_forward(fwd, boust), boust,
                   acc \o band_pieces(parts[k], dividing[k], fwd))

divide_vertical_then_horizontal_with_weights(r, ws, target, boust) ==
    LET dividing == pick_loop(weight_stack(ws), <<>>, <<>>,
                              area(r), Height(r), target)
        parts == divide_by_weights_and_axis(r, group_weights(dividing), "Vertical")
    IN  band_loop(parts, dividing, 1, TRUE, boust, <<>>)

divide_horizontal_then_vertical_with_weights(r, ws, target, boust) ==
    LET rotated == rotate_clockwise(r)
        rotated_aspect_ratio == RDiv(One, target)
        d == divide_vertical_then_horizontal_with_weights(
                 rotated, ws, rotated_aspect_ratio, boust)
    IN  [i \in 1..Len(d) |-> rotate_counter_clockwise(d[i])]

(***************************************************************************)
(* The inputs a caller may pass.                                           *)
(***************************************************************************)
Axes == {"Vertical", "Horizontal"}
Origins == {<<0, 0>>, <<1, 2>>}
WeightValues == {1, 2}
Ratios == {<<1, 2>>, <<1, 1>>, <<3, 2>>, <<2, 1>>}
OffsetValues == {Int2Rat(n) : n \in 0..MaxSize} \cup {<<1, 2>>, <<-1, 1>>}

SeqsUpTo(S, n) == UNION {[1..k -> S] : k \in 0..n}

IntRect(x, y, w, h) ==
    AxisAlignedRectangle(Point(Int2Rat(x), Int2Rat(y)), Rectangle(Int2Rat(w), Int2Rat(h)))
IntList(s) == [i \in 1..Len(s) |-> Int2Rat(s[i])]

\* the rectangles and weights of the examples (tests of dividing.rs)
ExampleRects == {IntRect(0, 0, 100, 100), IntRect(0, 0, 9, 8)}
ExampleWeightLists == {IntList(<<4, 4, 1, 1, 1, 1>>)}

Rects ==
    { IntRect(o[1], o[2], w, h) :
        o \in Origins, w \in 1..MaxSize, h \in 1..MaxSize } \cup ExampleRects

PositiveWeightLists == SeqsUpTo({Int2Rat(n) : n \in WeightValues}, MaxLen)
TwoPassWeightLists == PositiveWeightLists \cup ExampleWeightLists
BindingWeightLists == {ws \in PositiveWeightLists : Len(ws) <= 2}
\* divide_by_weights_and_axis is also called with weights that are not positive;
\* a single weight is never used in arithmetic, two or more are divided by their
\* sum, which is then taken non-zero (the quotient by zero depends on the type T)
AnyWeightValues == {-1, 0} \cup WeightValues
AnyWeightLists ==
    { ws \in SeqsUpTo({Int2Rat(n) : n \in AnyWeightValues}, MaxLen) :
        Len(ws) <= 1 \/ RSum(ws) # Zero }

(***************************************************************************)
(* The binding function `dividing`.  A JsValue is modelled by the record   *)
(* of the fields it carries.                                               *)
(***************************************************************************)
JSRectFields == {"x", "y", "w", "h"}
JSRect(r) == [x |-> X(r), y |-> Y(r), w |-> Width(r), h |-> Height(r)]

\* what a caller may pass for rect: the JSRect of its rectangle, or a value
\* that lacks fields of JSRect
JsValues(r) == { JSRect(r), [x |-> X(r), y |-> Y(r), w |-> Width(r)], [s |-> "rect"] }

\* a slip: fields that are missing are given a default instead of being refused
from_value_lenient(js) ==
    [ ok |-> TRUE,
      rect |-> [f \in JSRectFields |-> IF f \in DOMAIN js THEN js[f] ELSE One] ]

\* line 26: serde_wasm_bindgen::from_value::<JSRect>(rect)
from_value(js) ==
    IF JSRectFields \subseteq DOMAIN js
    THEN [ok |-> TRUE, rect |-> [f \in JSRectFields |-> js[f]]]
    ELSE [ok |-> FALSE, rect |-> [f \in JSRectFields |-> Zero]]

NoBinding == [rect |-> [s |-> "none"], vertical_first |-> TRUE, error |-> "none"]

Init ==
    /\ self_ \in Rects
    /\ op = "none"
    /\ pc = "idle"
    /\ axis = "none"
    /\ v = Zero
    /\ values = <<>>
    /\ weights = <<>>
    /\ aspect_ratio = One
    /\ boustrophedon = FALSE
    /\ receiver = self_
    /\ ratio = One
    /\ remaining_weights = <<>>
    /\ picked_weights = <<>>
    /\ dividing_weights = <<>>
    /\ vertical_divided = <<>>
    /\ band = 1
    /\ forward = TRUE
    /\ divided = <<>>
    /\ result = <<>>
    /\ binding = NoBinding
    /\ rot = [turns |-> 0, point |-> self_.point, rectangle |-> self_.rectangle,
              aar |-> self_]

locals == <<receiver, ratio, remaining_weights, picked_weights, dividing_weights,
            vertical_divided, band, forward, divided>>

\* self.divide(v, axis)
Divide ==
    /\ pc = "idle"
    /\ UNCHANGED <<binding, rot>>
    /\ \E val \in OffsetValues, ax \in Axes :
         /\ v' = val
         /\ axis' = ax
         /\ result' = divide(self_, val, ax)
    /\ op' = "divide"
    /\ pc' = "done"
    /\ UNCHANGED <<self_, values, weights, aspect_ratio, boustrophedon, locals>>

\* self.divide_by_values_and_axis(&values, axis)
DivideByValues ==
    /\ pc = "idle"
    /\ UNCHANGED <<binding, rot>>
    /\ \E vals \in SeqsUpTo(OffsetValues, MaxValues), ax \in Axes :
         /\ values' = vals
         /\ axis' = ax
         /\ result' = divide_by_values_and_axis(self_, vals, ax)
    /\ op' = "divide_by_values_and_axis"
    /\ pc' = "done"
    /\ UNCHANGED <<self_, v, weights, aspect_ratio, boustrophedon, locals>>

\* self.divide_by_weights_and_axis(&weights, axis)
DivideByWeights ==
    /\ pc = "idle"
    /\ UNCHANGED <<binding, rot>>
    /\ \E ws \in AnyWeightLists, ax \in Axes :
         /\ weights' = ws
         /\ axis' = ax
         /\ result' = divide_by_weights_and_axis(self_, ws, ax)
    /\ op' = "divide_by_weights_and_axis"
    /\ pc' = "done"
    /\ UNCHANGED <<self_, v, values, aspect_ratio, boustrophedon, locals>>

\* self.divide_by_weights_and_axis(&weights, axis) on AxisAlignedRectangle<integer>
DivideByWeightsInteger ==
    /\ pc = "idle"
    /\ UNCHANGED <<binding, rot>>
    /\ \E ws \in PositiveWeightLists, ax \in Axes :
         /\ weights' = ws
         /\ axis' = ax
         /\ result' = divide_by_weights_and_axis_integer(self_, ws, ax)
    /\ op' = "divide_by_weights_and_axis_integer"
    /\ pc' = "done"
    /\ UNCHANGED <<self_, v, values, aspect_ratio, boustrophedon, locals>>

\* lines 80-90 of divide_vertical_then_horizontal_with_weights on receiver rcv
Enter(rcv, ws, target) ==
    /\ receiver' = rcv
    /\ ratio' = target
    /\ remaining_weights' = weight_stack(ws)
    /\ picked_weights' = <<>>
    /\ dividing_weights' = <<>>
    /\ divided' = <<>>
    /\ pc' = "pick"
    /\ UNCHANGED <<vertical_divided, band, forward>>

\* self.divide_vertical_then_horizontal_with_weights(&weights, aspect_ratio, boustrophedon)
CallVerticalThenHorizontal ==
    /\ pc = "idle"
    /\ UNCHANGED <<binding, rot>>
    /\ \E ws \in TwoPassWeightLists, ar \in Ratios, b \in BOOLEAN :
         /\ weights' = ws
         /\ aspect_ratio' = ar
         /\ boustrophedon' = b
         /\ Enter(self_, ws, ar)
    /\ op' = "divide_vertical_then_horizontal_with_weights"
    /\ UNCHANGED <<self_, axis, v, values, result>>

\* self.divide_horizontal_then_vertical_with_weights(...): lines 144-150
CallHorizontalThenVertical ==
    /\ pc = "idle"
    /\ UNCHANGED <<binding, rot>>
    /\ \E ws \in TwoPassWeightLists, ar \in Ratios, b \in BOOLEAN :
         /\ weights' = ws
         /\ aspect_ratio' = ar
         /\ boustrophedon' = b
         /\ Enter(rotate_clockwise(self_), ws, RDiv(One, ar))
    /\ op' = "divide_horizontal_then_vertical_with_weights"
    /\ UNCHANGED <<self_, axis, v, values, result>>

\* one iteration of the while loop, lines 92-103
PickWeight ==
    /\ pc = "pick"
    /\ UNCHANGED <<binding, rot>>
    /\ remaining_weights # <<>>
    /\ LET st == pick_weight(remaining_weights, picked_weights, dividing_weights,
                             area(receiver), Height(receiver), ratio)
       IN  /\ remaining_weights' = st.remaining_weights
           /\ picked_weights' = st.picked_weights
           /\ dividing_weights' = st.dividing_weights
    /\ UNCHANGED <<self_, op, pc, axis, v, values, weights, aspect_ratio, boustrophedon,
                   receiver, ratio, vertical_divided, band, forward, divided, result>>

\* loop exit, lines 104-110: leftover group, outer split
SplitBands ==
    /\ pc = "pick"
    /\ UNCHANGED <<binding, rot>>
    /\ remaining_weights = <<>>
    /\ LET dividing == push_leftover(picked_weights, dividing_weights)
       IN  /\ dividing_weights' = dividing
           /\ vertical_divided' =
                  divide_by_weights_and_axis(receiver, group_weights(dividing), "Vertical")
    /\ forward' = TRUE
    /\ band' = 1
    /\ pc' = "bands"
    /\ UNCHANGED <<self_, op, axis, v, values, weights, aspect_ratio, boustrophedon,
                   receiver, ratio, remaining_weights, picked_weights, divided, result>>

\* a slip: the reversal of lines 112-114 is done on the caller's list
SplitBand_reverses_weights_of_caller ==
    /\ pc = "bands"
    /\ UNCHANGED <<binding, rot>>
    /\ band <= Len(vertical_divided)
    /\ band <= Len(dividing_weights)
    /\ weights' = band_weights(weights, forward)
    /\ dividing_weights' =
          [dividing_weights EXCEPT ![band] = band_weights(@, forward)]
    /\ divided' = divided \o
          band_pieces(vertical_divided[band], dividing_weights[band], forward)
    /\ forward' = next_forward(forward, boustrophedon)
    /\ band' = band + 1
    /\ UNCHANGED <<self_, op, pc, axis, v, values, aspect_ratio, boustrophedon,
                   receiver, ratio, remaining_weights, picked_weights,
                   vertical_divided, result>>

\* one iteration of the for loop over the bands, lines 111-124
SplitBand ==
    /\ pc = "bands"
    /\ UNCHANGED <<binding, rot>>
    /\ band <= Len(vertical_divided)
    /\ band <= Len(dividing_weights)
    /\ dividing_weights' =
          [dividing_weights EXCEPT ![band] = band_weights(@, forward)]
    /\ divided' = divided \o
          band_pieces(vertical_divided[band], dividing_weights[band], forward)
    /\ forward' = next_forward(forward, boustrophedon)
    /\ band' = band + 1
    /\ UNCHANGED <<self_, op, pc, axis, v, values, weights, aspect_ratio, boustrophedon,
                   receiver, ratio, remaining_weights, picked_weights,
                   vertical_divided, result>>

\* line 125, and lines 151-154 when called through the horizontal-major entry
Return ==
    /\ pc = "bands"
    /\ UNCHANGED <<binding, rot>>
    /\ (band > Len(vertical_divided) \/ band > Len(dividing_weights))
    /\ LET horizontal_first ==
               \/ op = "divide_horizontal_then_vertical_with_weights"
               \/ (op = "dividing" /\ ~binding.vertical_first)
           rects == IF horizontal_first
                    THEN [i \in 1..Len(divided) |-> rotate_counter_clockwise(divided[i])]
                    ELSE divided
       IN  result' = IF op = "dividing"
                     THEN [i \in 1..Len(rects) |-> JSRect(rects[i])]
                     ELSE rects
    /\ pc' = "done"
    /\ UNCHANGED <<self_, op, axis, v, values, weights, aspect_ratio, boustrophedon,
                   locals>>

\* wasm_binding.rs lines 19-38: dividing(rect, weights, aspect_ratio, vertical_first,
\* boustrophedron) up to the call of the division routine, or the early return
Dividing ==
    /\ pc = "idle"
    /\ \E js \in JsValues(self_), ws \in BindingWeightLists, ar \in Ratios,
          vf \in BOOLEAN, b \in BOOLEAN :
         LET parsed == from_value(js)
             rect == AxisAlignedRectangle(Point(parsed.rect.x, parsed.rect.y),
                                          Rectangle(parsed.rect.w, parsed.rect.h))
         IN  IF ~parsed.ok
             THEN /\ binding' = [rect |-> js, vertical_first |-> vf,
                                 error |-> "failed to parse rect"]
                  /\ pc' = "done"
                  /\ UNCHANGED <<weights, aspect_ratio, boustrophedon, locals>>
             ELSE /\ binding' = [rect |-> js, vertical_first |-> vf, error |-> "none"]
                  /\ weights' = ws
                  /\ aspect_ratio' = ar
                  /\ boustrophedon' = b
                  /\ IF vf THEN Enter(rect, ws, ar)
                           ELSE Enter(rotate_clockwise(rect), ws, RDiv(One, ar))
    /\ op' = "dividing"
    /\ UNCHANGED <<self_, axis, v, values, result, rot>>

\* weight.rs lines 4-14: normalize_weights(&weights)
NormalizeWeights ==
    /\ pc = "idle"
    /\ \E ws \in PositiveWeightLists :
         /\ weights' = ws
         /\ result' = normalize_weights(ws)
    /\ op' = "normalize_weights"
    /\ pc' = "done"
    /\ UNCHANGED <<self_, axis, v, values, aspect_ratio, boustrophedon, locals,
                   binding, rot>>

\* one more rotate_clockwise() on a Point, a Rectangle and an AxisAlignedRectangle
RotateClockwise ==
    /\ pc \in {"idle", "rotating"}
    /\ rot.turns < MaxTurns
    /\ rot' = [ turns |-> rot.turns + 1,
                point |-> point_rotate_clockwise(rot.point),
                rectangle |-> rectangle_rotate_clockwise(rot.rectangle),
                aar |-> rotate_clockwise(rot.aar) ]
    /\ op' = "rotate_clockwise"
    /\ pc' = "rotating"
    /\ UNCHANGED <<self_, axis, v, values, weights, aspect_ratio, boustrophedon,
                   locals, result, binding>>

Next ==
    \/ Divide
    \/ DivideByValues
    \/ DivideByWeights
    \/ DivideByWeightsInteger
    \/ CallVerticalThenHorizontal
    \/ CallHorizontalThenVertical
    \/ PickWeight
    \/ SplitBands
    \/ SplitBand
    \/ Return
    \/ Dividing
    \/ NormalizeWeights
    \/ RotateClockwise

Spec == Init /\ [][Next]_vars

(***************************************************************************)
(* Vocabulary of the properties.                                           *)
(***************************************************************************)
VH == "divide_vertical_then_horizontal_with_weights"
HV == "divide_horizontal_then_vertical_with_weights"
Done(o) == pc = "done" /\ op = o
TwoPassDone == pc = "done" /\ op \in {VH, HV}

AllPositive(ws) == \A i \in 1..Len(ws) : RLt(Zero, ws[i])
Areas(rs) == [i \in 1..Len(rs) |-> area(rs[i])]
Right(r) == RAdd(X(r), Width(r))
Bottom(r) == RAdd(Y(r), Height(r))

\* p lies inside o, boundary included
Encloses(o, p) ==
    /\ RLeq(X(o), X(p)) /\ RLeq(Right(p), Right(o))
    /\ RLeq(Y(o), Y(p)) /\ RLeq(Bottom(p), Bottom(o))

\* the open interiors of p and q meet
InteriorsOverlap(p, q) ==
    /\ RLt(X(p), Right(q)) /\ RLt(X(q), Right(p))
    /\ RLt(Y(p), Bottom(q)) /\ RLt(Y(q), Bottom(p))

\* number of bands and, for band k, the number of output pieces before it
NBands == Len(dividing_weights)
RECURSIVE BandOffset(_)
BandOffset(k) == IF k <= 1 THEN 0 ELSE BandOffset(k - 1) + Len(dividing_weights[k - 1])

(***************************************************************************)
(* C1: after either two-pass division, for every index i, output piece i   *)
(* has area area(self) * weights[i] / sum(weights): output i belongs to    *)
(* input weight i, also inside the bands that boustrophedon reverses.      *)
(***************************************************************************)
C1_AreaOfPieceIsItsWeightShare ==
    TwoPassDone =>
        \A i \in 1..Len(weights) :
            /\ i \in DOMAIN result
            /\ area(result[i]) = RDiv(RMul(area(self_), weights[i]), RSum(weights))

\* a finished boustrophedon run whose reversed second band holds two different weights
C1_Witness ==
    /\ TwoPassDone
    /\ boustrophedon
    /\ NBands >= 2
    /\ Len(dividing_weights[2]) >= 2
    /\ dividing_weights[2][1] # dividing_weights[2][2]

(***************************************************************************)
(* C2: the two-pass division returns exactly len(weights) rectangles: the  *)
(* group sizes add up to the number of weights, and every band processed   *)
(* has contributed one piece per member weight.                            *)
(***************************************************************************)
C2_OnePiecePerWeight ==
    /\ (pc = "bands" \/ TwoPassDone) =>
          /\ BandOffset(NBands + 1) = Len(weights)
          /\ Len(divided) = BandOffset(band)
    /\ TwoPassDone => Len(result) = Len(weights)

\* a finished run with at least two bands, the last one being the leftover group
C2_Witness ==
    /\ TwoPassDone
    /\ NBands >= 2
    /\ picked_weights # <<>>
    /\ Len(result) >= 3

(***************************************************************************)
(* C3: the areas of the pieces of a full partition (divide_by_values_and_  *)
(* axis, divide_by_weights_and_axis, two-pass division) add up to the area *)
(* of the source rectangle, exactly.                                       *)
(***************************************************************************)
C3_AreaConserved ==
    (/\ pc = "done"
     /\ op \in {"divide_by_values_and_axis", "divide_by_weights_and_axis", VH, HV}
     /\ result # <<>>) =>
        RSum(Areas(result)) = area(self_)

\* a partition into three or more pieces at non-zero offsets
C3_Witness ==
    /\ Done("divide_by_values_and_axis")
    /\ Len(result) >= 3
    /\ \A i \in 1..Len(values) : values[i] # Zero

(***************************************************************************)
(* C4: with positive weights, every piece returned by divide_by_weights_   *)
(* and_axis and by the two-pass division lies inside the original          *)
(* rectangle (boundary included) and no two distinct pieces have           *)
(* overlapping interiors.                                                  *)
(***************************************************************************)
C4_EnclosedAndDisjoint ==
    (/\ pc = "done"
     /\ op \in {"divide_by_weights_and_axis", VH, HV}
     /\ AllPositive(weights)) =>
        /\ \A i \in 1..Len(result) : Encloses(self_, result[i])
        /\ \A i, j \in 1..Len(result) :
              i # j => ~InteriorsOverlap(result[i], result[j])

\* a finished two-pass run with a reversed band, away from the origin
C4_Witness ==
    /\ TwoPassDone
    /\ boustrophedon
    /\ NBands >= 2
    /\ Len(result) >= 4
    /\ X(self_) # Zero

(***************************************************************************)
(* C5: divide(v, Vertical) of (x, y, w, h) returns (x, y, v, h) and        *)
(* (x+v, y, w-v, h); divide(v, Horizontal) returns (x, y, w, v) and        *)
(* (x, y+v, w, h-v).                                                       *)
(***************************************************************************)
C5_DivideSplitsAtOffset ==
    Done("divide") =>
        LET x == X(self_)  y == Y(self_)  w == Width(self_)  h == Height(self_)
        IN  IF axis = "Vertical"
            THEN result = << AxisAlignedRectangle(Point(x, y), Rectangle(v, h)),
                             AxisAlignedRectangle(Point(RAdd(x, v), y),
                                                  Rectangle(RSub(w, v), h)) >>
            ELSE result = << AxisAlignedRectangle(Point(x, y), Rectangle(w, v)),
                             AxisAlignedRectangle(Point(x, RAdd(y, v)),
                                                  Rectangle(w, RSub(h, v))) >>

\* a horizontal split at a non-zero offset of a rectangle that is not square
C5_Witness ==
    /\ Done("divide")
    /\ axis = "Horizontal"
    /\ v # Zero
    /\ Width(self_) # Height(self_)
    /\ X(self_) # Y(self_)

(***************************************************************************)
(* C6: divide_by_values_and_axis(values, axis) returns len(values)+1       *)
(* pieces; piece k has extent values[k] along the axis and starts at the   *)
(* origin plus values[1]+...+values[k-1]; the last piece is the remainder, *)
(* of extent size - sum(values); consecutive pieces are contiguous, the    *)
(* last piece ends at the far edge, and every piece keeps the extent of    *)
(* the original on the other axis.                                         *)
(***************************************************************************)
Along(p) == IF axis = "Vertical" THEN X(p) ELSE Y(p)
Extent(p) == IF axis = "Vertical" THEN Width(p) ELSE Height(p)
OtherExtent(p) == IF axis = "Vertical" THEN Height(p) ELSE Width(p)
PrefixSum(k) == RSum(SubSeq(values, 1, k))

C6_PiecesAtRunningOffsets ==
    Done("divide_by_values_and_axis") =>
        LET n == Len(values) IN
        /\ Len(result) = n + 1
        /\ \A k \in 1..n :
              /\ Extent(result[k]) = values[k]
              /\ Along(result[k]) = RAdd(Along(self_), PrefixSum(k - 1))
              /\ RAdd(Along(result[k]), Extent(result[k])) = Along(result[k + 1])
        /\ Extent(result[n + 1]) = RSub(Extent(self_), PrefixSum(n))
        /\ Along(result[n + 1]) = RAdd(Along(self_), PrefixSum(n))
        /\ RAdd(Along(result[n + 1]), Extent(result[n + 1]))
              = RAdd(Along(self_), Extent(self_))
        /\ \A k \in 1..(n + 1) : OtherExtent(result[k]) = OtherExtent(self_)

\* two non-zero offsets along the horizontal axis
C6_Witness ==
    /\ Done("divide_by_values_and_axis")
    /\ axis = "Horizontal"
    /\ Len(values) = 2
    /\ RLt(Zero, values[1])
    /\ RLt(Zero, values[2])
    /\ values[1] # values[2]

(***************************************************************************)
(* C7: divide_by_weights_and_axis returns exactly len(weights) pieces; an  *)
(* empty list gives an empty result and a single weight gives the receiver *)
(* itself, whatever the value of the weight.                               *)
(***************************************************************************)
C7_WeightsPieceCount ==
    Done("divide_by_weights_and_axis") =>
        /\ Len(result) = Len(weights)
        /\ weights = <<>> => result = <<>>
        /\ Len(weights) = 1 => result = <<self_>>

\* the call with the single weight 0
C7_Witness ==
    /\ Done("divide_by_weights_and_axis")
    /\ weights = <<Zero>>
    /\ result = <<self_>>

(***************************************************************************)
(* C8: for two or more positive weights, divide_by_weights_and_axis        *)
(* returns what divide_by_values_and_axis returns for the offsets          *)
(* size * w_i / sum(w) of all weights but the last, and piece i (the last  *)
(* included) has extent size * w_i / sum(w) along the axis.                *)
(***************************************************************************)
Share(i) == RDiv(RMul(size_for_axis(self_, axis), weights[i]), RSum(weights))

C8_WeightsAreOffsets ==
    (/\ Done("divide_by_weights_and_axis")
     /\ Len(weights) >= 2
     /\ AllPositive(weights)) =>
        /\ result = divide_by_values_and_axis(
                        self_, [i \in 1..(Len(weights) - 1) |-> Share(i)], axis)
        /\ \A i \in 1..Len(weights) :
              /\ i \in DOMAIN result
              /\ Extent(result[i]) = Share(i)

\* three weights, not all equal, whose shares are not whole numbers
C8_Witness ==
    /\ Done("divide_by_weights_and_axis")
    /\ Len(weights) = 3
    /\ weights[1] # weights[3]
    /\ Share(3)[2] # 1

(***************************************************************************)
(* C9: piece i of the horizontal-major division of R is the transpose of   *)
(* piece i of the vertical-major division of transpose(R) with the         *)
(* reciprocal ratio and the same flag.                                     *)
(***************************************************************************)
Transpose(r) ==
    [ point |-> [x |-> r.point.y, y |-> r.point.x],
      rectangle |-> [width |-> r.rectangle.height, height |-> r.rectangle.width] ]

C9_OrientationsAreMirrors ==
    Done(HV) =>
        LET mirror == divide_vertical_then_horizontal_with_weights(
                          Transpose(self_), weights, RDiv(One, aspect_ratio),
                          boustrophedon)
        IN  /\ Len(result) = Len(mirror)
            /\ \A i \in 1..Len(result) : result[i] = Transpose(mirror[i])

\* a horizontal-major run in two bands on a rectangle that is not its own transpose
C9_Witness ==
    /\ Done(HV)
    /\ self_ # Transpose(self_)
    /\ NBands >= 2
    /\ Len(result) >= 3
    /\ aspect_ratio # One

(***************************************************************************)
(* C10: with boustrophedon, bands of even index (the 1st, 3rd, ...) run    *)
(* from the start of the inner axis in weight order and bands of odd index *)
(* (the 2nd, 4th, ...) run the other way, their first weight at the far    *)
(* end; the last piece of a band and the first piece of the next touch the *)
(* same edge.  Without boustrophedon every band runs from the start.       *)
(***************************************************************************)
InnerStart(p) == IF op = VH THEN Y(p) ELSE X(p)
InnerEnd(p) == IF op = VH THEN Bottom(p) ELSE Right(p)
BandPiece(k, j) == result[BandOffset(k) + j]
BandSize(k) == Len(dividing_weights[k])
RunsBackward(k) == boustrophedon /\ k % 2 = 0

C10_BoustrophedonLayout ==
    TwoPassDone =>
        /\ \A k \in 1..NBands :
              IF ~RunsBackward(k)
              THEN /\ InnerStart(BandPiece(k, 1)) = InnerStart(self_)
                   /\ \A j \in 1..(BandSize(k) - 1) :
                         InnerEnd(BandPiece(k, j)) = InnerStart(BandPiece(k, j + 1))
                   /\ InnerEnd(BandPiece(k, BandSize(k))) = InnerEnd(self_)
              ELSE /\ InnerEnd(BandPiece(k, 1)) = InnerEnd(self_)
                   /\ \A j \in 1..(BandSize(k) - 1) :
                         InnerStart(BandPiece(k, j)) = InnerEnd(BandPiece(k, j + 1))
                   /\ InnerStart(BandPiece(k, BandSize(k))) = InnerStart(self_)
        /\ boustrophedon =>
              \A k \in 1..(NBands - 1) :
                  IF k % 2 = 1
                  THEN /\ InnerEnd(BandPiece(k, BandSize(k))) = InnerEnd(self_)
                       /\ InnerEnd(BandPiece(k + 1, 1)) = InnerEnd(self_)
                  ELSE /\ InnerStart(BandPiece(k, BandSize(k))) = InnerStart(self_)
                       /\ InnerStart(BandPiece(k + 1, 1)) = InnerStart(self_)

\* a boustrophedon run of three bands whose backward band holds two pieces
C10_Witness ==
    /\ TwoPassDone
    /\ boustrophedon
    /\ NBands >= 3
    /\ BandSize(2) >= 2

(***************************************************************************)
(* C11: with an empty weight list the two-pass division returns the empty  *)
(* list, and with exactly one weight it returns the receiver alone, for    *)
(* every ratio, orientation and boustrophedon setting.                     *)
(***************************************************************************)
C11_TrivialInput ==
    TwoPassDone =>
        /\ weights = <<>> => result = <<>>
        /\ Len(weights) = 1 => result = <<self_>>

\* a horizontal-major boustrophedon run on one weight that reaches the target at once
C11_Witness ==
    /\ Done(HV)
    /\ Len(weights) = 1
    /\ boustrophedon
    /\ picked_weights = <<>>
    /\ self_ # Transpose(self_)

(***************************************************************************)
(* C12: a division called with a weight that is not positive fails and     *)
(* returns no rectangle.  No operation of the trait has a failure result:  *)
(* the pieces are computed and returned whatever the weights are.          *)
(***************************************************************************)
C12_PreconditionViolationReturnsNothing ==
    (/\ Done("divide_by_weights_and_axis")
     /\ ~AllPositive(weights)) =>
        result = <<>>

(***************************************************************************)
(* C13: when the rect passed to the binding function `dividing` cannot be  *)
(* parsed, the function returns the one error "failed to parse rect",      *)
(* neither division routine is entered and no rectangle is returned.       *)
(***************************************************************************)
LacksJSRectFields(js) == \E f \in {"x", "y", "w", "h"} : f \notin DOMAIN js

C13_ParseFailureIsOneError ==
    (op = "dividing" /\ LacksJSRectFields(binding.rect)) =>
        /\ pc = "done"
        /\ binding.error = "failed to parse rect"
        /\ result = <<>>
        /\ remaining_weights = <<>> /\ picked_weights = <<>>
        /\ dividing_weights = <<>> /\ vertical_divided = <<>> /\ divided = <<>>

\* the binding was called with a rect that carries x, y and w but no h
C13_Witness ==
    /\ op = "dividing"
    /\ pc = "done"
    /\ DOMAIN binding.rect = {"x", "y", "w"}
    /\ binding.error = "failed to parse rect"

(***************************************************************************)
(* C14: for a non-empty list of positive weights normalize_weights returns *)
(* a list of the same length, element i being weights[i] / sum(weights),   *)
(* in the same order, and its elements add up to 1.                        *)
(***************************************************************************)
C14_NormalizedWeights ==
    (Done("normalize_weights") /\ weights # <<>> /\ AllPositive(weights)) =>
        /\ Len(result) = Len(weights)
        /\ \A i \in 1..Len(weights) :
              /\ i \in DOMAIN result
              /\ RMul(result[i], RSum(weights)) = weights[i]
        /\ RSum(result) = One

\* three weights that are not all equal
C14_Witness ==
    /\ Done("normalize_weights")
    /\ Len(weights) = 3
    /\ weights[1] # weights[2]
    /\ result[1] # result[2]

(***************************************************************************)
(* C15: four successive applications of rotate_clockwise return the        *)
(* original Point, Rectangle and AxisAlignedRectangle exactly.             *)
(***************************************************************************)
C15_FourQuarterTurns ==
    rot.turns = 4 =>
        /\ rot.point = self_.point
        /\ rot.rectangle = self_.rectangle
        /\ rot.aar = self_

\* four turns of a rectangle whose width and height, and x and y, differ
C15_Witness ==
    /\ rot.turns = 4
    /\ op = "rotate_clockwise"
    /\ Width(self_) # Height(self_)
    /\ X(self_) # Y(self_)

(***************************************************************************)
(* C16 (Example A): the vertical-major division of the 100x100 rectangle   *)
(* at (0,0) with weights [1,1,1,1], ratio 1 and boustrophedon off returns  *)
(* the 50x50 rectangles at (0,0), (0,50), (50,0), (50,50), in this order:  *)
(* a group whose first-item ratio equals the target is closed.             *)
(***************************************************************************)
IsExampleA ==
    /\ self_ = IntRect(0, 0, 100, 100)
    /\ weights = IntList(<<1, 1, 1, 1>>)
    /\ aspect_ratio = One
    /\ ~boustrophedon

C16_ExampleA ==
    (Done(VH) /\ IsExampleA) =>
        /\ result = << IntRect(0, 0, 50, 50), IntRect(0, 50, 50, 50),
                       IntRect(50, 0, 50, 50), IntRect(50, 50, 50, 50) >>
        /\ NBands = 2
        /\ BandSize(1) = 2 /\ BandSize(2) = 2

\* the run of Example A has returned
C16_Witness ==
    /\ Done(VH)
    /\ IsExampleA
    /\ Len(result) = 4

(***************************************************************************)
(* C17 (Examples B and C): the vertical-major division of the 9x8          *)
(* rectangle at (0,0) with weights [4,4,1,1,1,1] and ratio 1.5 returns two *)
(* 6x4 pieces at (0,0) and (0,4), then four 3x2 pieces at x = 6; without   *)
(* boustrophedon these sit at y = 0, 2, 4, 6, with boustrophedon the same  *)
(* rectangles come in the order y = 6, 4, 2, 0.                            *)
(***************************************************************************)
IsExampleBC ==
    /\ self_ = IntRect(0, 0, 9, 8)
    /\ weights = IntList(<<4, 4, 1, 1, 1, 1>>)
    /\ aspect_ratio = <<3, 2>>

C17_ExampleC ==
    (Done(VH) /\ IsExampleBC) =>
        IF boustrophedon
        THEN result = << IntRect(0, 0, 6, 4), IntRect(0, 4, 6, 4),
                         IntRect(6, 6, 3, 2), IntRect(6, 4, 3, 2),
                         IntRect(6, 2, 3, 2), IntRect(6, 0, 3, 2) >>
        ELSE result = << IntRect(0, 0, 6, 4), IntRect(0, 4, 6, 4),
                         IntRect(6, 0, 3, 2), IntRect(6, 2, 3, 2),
                         IntRect(6, 4, 3, 2), IntRect(6, 6, 3, 2) >>

\* the boustrophedon run of Example C has returned
C17_Witness ==
    /\ Done(VH)
    /\ IsExampleBC
    /\ boustrophedon
    /\ Len(result) = 6

(***************************************************************************)
(* C18, as stated: the scan takes the weights from the last one backward,  *)
(* so the k weights added to groups so far are the last k normalized       *)
(* weights of the input list, the last one first.                          *)
(***************************************************************************)
PickedSoFar == Flatten(dividing_weights) \o picked_weights

C18_ScanRunsBackward ==
    pc = "pick" =>
        \A i \in 1..Len(PickedSoFar) :
            PickedSoFar[i] = normalize_weights(weights)[Len(weights) + 1 - i]

(***************************************************************************)
(* C18, amended: the scan takes the weights in input order; the k weights  *)
(* added to groups so far are the first k normalized weights of the input  *)
(* list, the first one first, and the stack holds the others.              *)
(***************************************************************************)
C18_ScanRunsForward ==
    pc = "pick" =>
        /\ Len(PickedSoFar) + Len(remaining_weights) = Len(weights)
        /\ \A i \in 1..Len(PickedSoFar) :
               PickedSoFar[i] = normalize_weights(weights)[i]

\* two weights have been taken from a list whose first and last weights differ
C18_Witness ==
    /\ pc = "pick"
    /\ Len(PickedSoFar) >= 2
    /\ remaining_weights # <<>>
    /\ weights[1] # weights[Len(weights)]

(***************************************************************************)
(* C19: the groups the stack-based scan hands to the outer split are the   *)
(* groups of a forward greedy scan over the normalized weights w_1..w_n    *)
(* that closes a group when the aspect ratio of its first item reaches or  *)
(* exceeds the target.                                                     *)
(***************************************************************************)
\* band extent along the outer axis / first item's extent along the inner axis
ForwardRatio(group, r) ==
    LET S == RSum(group)
        outer == RDiv(RMul(S, area(r)), Height(r))
        inner == RMul(Height(r), RDiv(group[1], S))
    IN  RDiv(outer, inner)

RECURSIVE ForwardScan(_, _, _, _, _, _)
ForwardScan(ws, i, group, groups, r, target) ==
    IF i > Len(ws)
    THEN IF group = <<>> THEN groups ELSE Append(groups, group)
    ELSE LET g == Append(group, ws[i])
         IN  IF RGeq(ForwardRatio(g, r), target)
             THEN ForwardScan(ws, i + 1, <<>>, Append(groups, g), r, target)
             ELSE ForwardScan(ws, i + 1, g, groups, r, target)

ForwardGroups(ws, r, target) == ForwardScan(ws, 1, <<>>, <<>>, r, target)

C19_StackScanIsForwardScan ==
    (pc = "bands" /\ band = 1) =>
        dividing_weights = ForwardGroups(normalize_weights(weights), receiver, ratio)

\* the scan has made at least two groups, one of them of several weights
C19_Witness ==
    /\ pc = "bands"
    /\ band = 1
    /\ Len(dividing_weights) >= 2
    /\ \E k \in 1..Len(dividing_weights) : Len(dividing_weights[k]) >= 2
    /\ weights[1] # weights[Len(weights)]

(***************************************************************************)
(* C20: each step of the scan adds the next weight to the current group;   *)
(* with S the sum of the group, w0 its first weight and W, H the outer and *)
(* inner extents of the rectangle, the group is closed and an empty one    *)
(* started exactly when (W*H*S / H) / (w0 / S * H) >= r, and keeps         *)
(* accumulating otherwise.  The ratio is that of the first weight of the   *)
(* group, not of the weight just added.                                    *)
(***************************************************************************)
\* (W*H*S / H) / (w / S * H) for the weight w of the group
ClosingRatio(group, w) ==
    LET W == Width(receiver)
        H == Height(receiver)
        S == RSum(group)
    IN  RDiv(RDiv(RMul(RMul(W, H), S), H), RMul(RDiv(w, S), H))

C20_ClosingRule ==
    [][ (pc = "pick" /\ remaining_weights # <<>>) =>
          LET group == Append(picked_weights, remaining_weights[Len(remaining_weights)])
          IN  IF RGeq(ClosingRatio(group, group[1]), ratio)
              THEN /\ dividing_weights' = Append(dividing_weights, group)
                   /\ picked_weights' = <<>>
              ELSE /\ dividing_weights' = dividing_weights
                   /\ picked_weights' = group ]_vars

\* a group has just been closed on its first weight although the ratio of the
\* weight just added is below the target, and the scan goes on
C20_Witness ==
    /\ pc = "pick"
    /\ remaining_weights # <<>>
    /\ picked_weights = <<>>
    /\ dividing_weights # <<>>
    /\ LET group == dividing_weights[Len(dividing_weights)]
       IN  /\ Len(group) >= 2
           /\ RGeq(ClosingRatio(group, group[1]), ratio)
           /\ RLt(ClosingRatio(group, group[Len(group)]), ratio)

(***************************************************************************)
(* C21: when the first weight of a new group alone already meets or        *)
(* exceeds the target ratio (a band holding only that weight is W * w wide *)
(* and H high), the group is closed at once with that single weight, and   *)
(* the next weight starts a new group.                                     *)
(***************************************************************************)
\* width / height of the band made of the normalized weight w alone
AloneRatio(w) == RDiv(RMul(Width(receiver), w), Height(receiver))

C21_SingleWeightGroupClosed ==
    [][ (/\ pc = "pick"
         /\ remaining_weights # <<>>
         /\ picked_weights = <<>>
         /\ RGeq(AloneRatio(remaining_weights[Len(remaining_weights)]), ratio)) =>
            /\ dividing_weights' =
                   Append(dividing_weights, <<remaining_weights[Len(remaining_weights)]>>)
            /\ picked_weights' = <<>> ]_vars

\* a group of one weight was closed and the next weight went into a new group
C21_Witness ==
    /\ pc = "pick"
    /\ Len(dividing_weights) = 1
    /\ Len(dividing_weights[1]) = 1
    /\ RGeq(AloneRatio(dividing_weights[1][1]), ratio)
    /\ Len(picked_weights) = 1

(***************************************************************************)
(* C22: during the grouping loop the closed groups, then the current       *)
(* group, then the weights not yet processed, concatenated in that order,  *)
(* are the normalized weights in input order.  Once the loop has ended     *)
(* every group is a non-empty contiguous run of the input and the groups   *)
(* together hold every weight once; afterwards a band's weights are that   *)
(* run or its reversal, the reversal only with boustrophedon.              *)
(***************************************************************************)
\* the weights of input positions BandOffset(k)+1 .. BandOffset(k+1)
InputRun(k) ==
    SubSeq(normalize_weights(weights), BandOffset(k) + 1, BandOffset(k + 1))

C22_GroupsPartitionTheInput ==
    /\ pc = "pick" =>
          Flatten(dividing_weights) \o picked_weights \o Reverse(remaining_weights)
              = normalize_weights(weights)
    /\ (pc = "bands" \/ TwoPassDone) =>
          /\ BandOffset(NBands + 1) = Len(weights)
          /\ \A k \in 1..NBands :
                /\ dividing_weights[k] # <<>>
                /\ \/ dividing_weights[k] = InputRun(k)
                   \/ /\ boustrophedon
                      /\ k < band
                      /\ dividing_weights[k] = Reverse(InputRun(k))

\* a finished boustrophedon run: the second band was reversed, the last group
\* was the one left open when the weights ran out
C22_Witness ==
    /\ TwoPassDone
    /\ boustrophedon
    /\ NBands >= 2
    /\ picked_weights # <<>>
    /\ dividing_weights[2] # InputRun(2)
    /\ dividing_weights[2] = Reverse(InputRun(2))

(***************************************************************************)
(* C23, as stated: for every rectangle, weight list, target ratio r,       *)
(* orientation and boustrophedon setting, every output piece i of the      *)
(* two-pass division has |width_i / height_i - r| * normalized weight i    *)
(* below 1/2.                                                              *)
(***************************************************************************)
RAbs(a) == <<Abs(a[1]), a[2]>>
Half == <<1, 2>>

\* rectangle.rs lines 113-115, and the product assert_respect_aspect_ratio bounds
AspectRatio(p) == RDiv(Width(p), Height(p))
Deviation(i) ==
    RMul(RAbs(RSub(AspectRatio(result[i]), aspect_ratio)), normalize_weights(weights)[i])

C23_AspectRatioRespected ==
    TwoPassDone => \A i \in 1..Len(result) : RLt(Deviation(i), Half)

(***************************************************************************)
(* C23, amended: the bound is not a property of every input; it holds for  *)
(* the inputs the tests assert it on: the 100x100 square with four equal   *)
(* weights and r = 1 in both orientations, and the 9x8 rectangle with      *)
(* weights [4,4,1,1,1,1] and r = 1.5 in vertical-major mode, with and      *)
(* without boustrophedon.                                                  *)
(***************************************************************************)
IsAssertedInput ==
    \/ /\ self_ = IntRect(0, 0, 100, 100)
       /\ weights = IntList(<<1, 1, 1, 1>>)
       /\ aspect_ratio = One
    \/ /\ op = VH
       /\ IsExampleBC

C23_AspectRatioRespectedWhereAsserted ==
    (TwoPassDone /\ IsAssertedInput) =>
        \A i \in 1..Len(result) : RLt(Deviation(i), Half)

\* the square of the tests has been divided into its four quarters
C23_Witness ==
    /\ TwoPassDone
    /\ self_ = IntRect(0, 0, 100, 100)
    /\ weights = IntList(<<1, 1, 1, 1>>)
    /\ aspect_ratio = One
    /\ Len(result) = 4
    /\ \A i \in 1..4 : AspectRatio(result[i]) = One

(***************************************************************************)
(* C24: no step of any operation changes the receiver rectangle, and once  *)
(* a call has been entered no step changes the arguments it was given      *)
(* (offset, offsets, weights); inside the two-pass division the rectangle  *)
(* being divided and the bands already cut stay as they are.  The reversal *)
(* done for boustrophedon changes the internal groups only.                *)
(***************************************************************************)
C24_ReceiverAndArgumentsUntouched ==
    [][ /\ self_' = self_
        /\ pc # "idle" =>
              /\ weights' = weights
              /\ values' = values
              /\ v' = v
        /\ pc = "pick" => receiver' = receiver
        /\ pc = "bands" =>
              /\ receiver' = receiver
              /\ vertical_divided' = vertical_divided ]_vars

\* the second band's internal weights have been reversed, and differ from the
\* caller's weights at the same positions
C24_Witness ==
    /\ pc = "bands"
    /\ boustrophedon
    /\ band = 3
    /\ dividing_weights[2] # InputRun(2)
    /\ weights[1] # weights[Len(weights)]

(***************************************************************************)
(* C25: two successive applications of rotate_clockwise return the         *)
(* original Point, Rectangle and AxisAlignedRectangle; hence               *)
(* rotate_counter_clockwise, which is three applications of                *)
(* rotate_clockwise, undoes rotate_clockwise on each of the three types.   *)
(***************************************************************************)
C25_TwoQuarterTurns ==
    /\ rot.turns = 2 =>
          /\ rot.point = self_.point
          /\ rot.rectangle = self_.rectangle
          /\ rot.aar = self_
    /\ rot.turns = 1 =>
          /\ point_rotate_clockwise(point_rotate_clockwise(
                 point_rotate_clockwise(rot.point))) = self_.point
          /\ rectangle_rotate_clockwise(rectangle_rotate_clockwise(
                 rectangle_rotate_clockwise(rot.rectangle))) = self_.rectangle
          /\ rotate_counter_clockwise(rot.aar) = self_

\* two turns of a rectangle that one turn changes in position and in size
C25_Witness ==
    /\ rot.turns = 2
    /\ op = "rotate_clockwise"
    /\ rotate_clockwise(self_).point # self_.point
    /\ rotate_clockwise(self_).rectangle # self_.rectangle

(***************************************************************************)
(* C26: in the output of the two-pass division, in every band but the last *)
(* the piece of the band's first weight has outer extent / inner extent    *)
(* (width / height in vertical-major mode) at least the target ratio of    *)
(* the scan (r in vertical-major mode, 1/r in horizontal-major mode), and  *)
(* with its last member left out the band would have stayed below the      *)
(* target.  Only the last band may fall short.                             *)
(***************************************************************************)
OuterExtent(p) == IF op = VH THEN Width(p) ELSE Height(p)
InnerExtent(p) == IF op = VH THEN Height(p) ELSE Width(p)
ScanTarget == IF op = VH THEN aspect_ratio ELSE RDiv(One, aspect_ratio)

\* outer / inner extent the first piece gets in a band made of the weights run
FirstPieceRatio(run) ==
    RDiv(RMul(OuterExtent(self_), RSum(run)),
         RMul(InnerExtent(self_), RDiv(run[1], RSum(run))))

C26_ClosedBandsReachTheTarget ==
    TwoPassDone =>
        \A k \in 1..(NBands - 1) :
            /\ RGeq(RDiv(OuterExtent(BandPiece(k, 1)), InnerExtent(BandPiece(k, 1))),
                    ScanTarget)
            /\ BandSize(k) >= 2 =>
                  RLt(FirstPieceRatio(SubSeq(InputRun(k), 1, BandSize(k) - 1)),
                      ScanTarget)

\* a finished run whose first band needed two weights to reach the target and
\* whose last band falls short of it
C26_Witness ==
    /\ TwoPassDone
    /\ NBands >= 2
    /\ BandSize(1) >= 2
    /\ InputRun(1)[1] # InputRun(1)[2]
    /\ RLt(RDiv(OuterExtent(BandPiece(NBands, 1)), InnerExtent(BandPiece(NBands, 1))),
           ScanTarget)

(***************************************************************************)
(* C27: the boustrophedon flag changes neither the grouping nor any size.  *)
(* Compared with the same call made with the other value of the flag, the  *)
(* groups have the same sizes and output piece i has the same width, the   *)
(* same height and the same origin along the outer axis; its origin along  *)
(* the inner axis is the same too unless it lies in a band that runs       *)
(* backward with the flag on (the 2nd, 4th, ...).                          *)
(***************************************************************************)
OuterStart(p) == IF op = VH THEN X(p) ELSE Y(p)

\* the result of the same call with the other value of the flag
WithOtherFlag ==
    IF op = VH
    THEN divide_vertical_then_horizontal_with_weights(
             self_, weights, aspect_ratio, ~boustrophedon)
    ELSE divide_horizontal_then_vertical_with_weights(
             self_, weights, aspect_ratio, ~boustrophedon)

\* the groups the scan makes, which takes no flag
GroupsOfScan ==
    pick_loop(weight_stack(weights), <<>>, <<>>, area(receiver), Height(receiver), ratio)

C27_FlagKeepsGroupsAndSizes ==
    TwoPassDone =>
        /\ Len(WithOtherFlag) = Len(result)
        /\ Len(GroupsOfScan) = NBands
        /\ \A k \in 1..NBands :
              /\ Len(GroupsOfScan[k]) = BandSize(k)
              /\ \A j \in 1..BandSize(k) :
                    LET p == BandPiece(k, j)
                        q == WithOtherFlag[BandOffset(k) + j]
                    IN  /\ Width(p) = Width(q)
                        /\ Height(p) = Height(q)
                        /\ OuterStart(p) = OuterStart(q)
                        /\ k % 2 = 1 => InnerStart(p) = InnerStart(q)

\* a finished run whose second band holds different weights, so that the flag
\* moves its first piece along the inner axis
C27_Witness ==
    /\ TwoPassDone
    /\ NBands >= 2
    /\ BandSize(2) >= 2
    /\ InputRun(2)[1] # InputRun(2)[2]
    /\ InnerStart(BandPiece(2, 1)) # InnerStart(WithOtherFlag[BandOffset(2) + 1])

(***************************************************************************)
(* C28: with an integer numeric type and two or more positive weights,     *)
(* divide_by_weights_and_axis normalizes every weight to 0: every piece    *)
(* but the last has extent 0 along the axis, the last piece has the whole  *)
(* extent; the areas are not the weight shares of the source area, yet     *)
(* they still add up to it.                                                *)
(***************************************************************************)
C28_IntegerWeightsCollapse ==
    (Done("divide_by_weights_and_axis_integer") /\ Len(weights) >= 2) =>
        LET n == Len(weights)
        IN  /\ Len(result) = n
            /\ \A i \in 1..(n - 1) : Extent(result[i]) = Zero
            /\ Extent(result[n]) = Extent(self_)
            /\ \A i \in 1..n : OtherExtent(result[i]) = OtherExtent(self_)
            /\ \E i \in 1..n :
                  area(result[i]) # RDiv(RMul(area(self_), weights[i]), RSum(weights))
            /\ RSum(Areas(result)) = area(self_)

\* three different integer weights on a rectangle away from the origin
C28_Witness ==
    /\ Done("divide_by_weights_and_axis_integer")
    /\ Len(weights) = 3
    /\ weights[1] # weights[3]
    /\ result[3] = self_
    /\ X(self_) # Zero

(***************************************************************************)
(* C29: when no proper prefix of the weight list reaches the target ratio  *)
(* (the test succeeds for the first time on the last weight, or never),    *)
(* all weights form a single band and the vertical-major result is         *)
(* divide_by_weights_and_axis(weights, Horizontal) of the whole rectangle: *)
(* every piece has the full width of the rectangle.                        *)
(***************************************************************************)
NoProperPrefixReachesTarget ==
    \A k \in 1..(Len(weights) - 1) :
        RLt(ForwardRatio(SubSeq(normalize_weights(weights), 1, k), self_), aspect_ratio)

C29_SingleBandIsHorizontalSplit ==
    (Done(VH) /\ NoProperPrefixReachesTarget) =>
        /\ weights # <<>> => NBands = 1
        /\ result = divide_by_weights_and_axis(self_, weights, "Horizontal")
        /\ \A i \in 1..Len(result) :
              /\ Width(result[i]) = Width(self_)
              /\ X(result[i]) = X(self_)

\* three weights, the first two different, whose group reached the target only
\* when the last one was added
C29_Witness ==
    /\ Done(VH)
    /\ NoProperPrefixReachesTarget
    /\ Len(weights) = 3
    /\ weights[1] # weights[2]
    /\ picked_weights = <<>>
    /\ Len(result) = 3

====
